---- MODULE Spec2Model ----
(***************************************************************************)
(* EnvironmentalMonitor (src/environ.py): the last known position, the     *)
(* last particulate reading, a timestamp and the send_remote flag, with    *)
(* the distance computation, the two acquisition stubs, the JSON export    *)
(* and the AWS IoT publish.                                                *)
(*                                                                         *)
(* Numbers.  Coordinates are integers in units of 1e-4 degree (34.0522 is  *)
(* 340522), particulate readings in tenths (15.5 is 155), distances in     *)
(* feet, datetimes in seconds after a fixed instant.  An optional value is *)
(* a sequence: <<>> is None, <<x>> is the value x.                         *)
(***************************************************************************)
EXTENDS Integers, Sequences, FiniteSets, TLC

VARIABLES
    last_update_time,          \* self._last_update_time
    last_longitude,            \* self._last_longitude
    last_latitude,             \* self._last_latitude
    send_remote,               \* self._send_remote
    last_particulate_reading,  \* self._last_particulate_reading
    file,                      \* the documents held by the file at file_path
    geopy_major,               \* major version of the installed geopy
    ret                        \* the last call: its arguments, its outcome
                               \* and the network calls it made

fields == <<last_update_time, last_longitude, last_latitude, send_remote,
            last_particulate_reading>>

vars == <<last_update_time, last_longitude, last_latitude, send_remote,
          last_particulate_reading, file, geopy_major, ret>>

(***************************************************************************)
(* Bounds and input sets.                                                  *)
(***************************************************************************)
MaxTime == 1

Times == 0..MaxTime

None == <<>>

Some(x) == <<x>>

StubLatitude == 340522

StubLongitude == -1182437

StubParticulate == 155

\* 34.0000, the stub's latitude, and 91.0000 (no latitude on Earth; the
\* setter and the query take it all the same).
Latitudes == {340000, StubLatitude, 910000}

Longitudes == {-1180000, StubLongitude}

\* The stub's reading and a negative one, which the setter accepts.
Readings == {StubParticulate, -10}

Topics == {"device/a", "device/b"}

(***************************************************************************)
(* Outcomes of a call.                                                     *)
(***************************************************************************)
Return(v) == [kind |-> "return", value |-> v, exc |-> ""]

Raise(e) == [kind |-> "raise", value |-> <<>>, exc |-> e]

Call(op, args, topic, outcome, clients, publishes) ==
    [op |-> op, args |-> args, topic |-> topic, kind |-> outcome.kind,
     value |-> outcome.value, exc |-> outcome.exc,
     clients |-> clients, publishes |-> publishes]

(***************************************************************************)
(* geopy.distance.geodesic(a, b).feet                                      *)
(*                                                                         *)
(* geodesic() builds a Point from each pair.  geopy 2 rejects a latitude   *)
(* outside [-90, 90] with ValueError; geopy 1 folds it back into the range *)
(* with ((latitude + 90) % 180) - 90.  None counts as 0.0 (float(x or      *)
(* 0.0)).  The ellipsoidal length itself is stood for by a taxicab length  *)
(* in feet: it is 0 exactly when the two points are the same.              *)
(***************************************************************************)
Abs(x) == IF x < 0 THEN -x ELSE x

LatitudeLimit == 900000

FeetPerUnit == 36

Degrees(c) == IF c = None THEN 0 ELSE c[1]

PointRejected(lat) == geopy_major >= 2 /\ Abs(Degrees(lat)) > LatitudeLimit

PointLatitude(lat) ==
    IF Abs(Degrees(lat)) > LatitudeLimit
    THEN ((Degrees(lat) + LatitudeLimit) % (2 * LatitudeLimit)) - LatitudeLimit
    ELSE Degrees(lat)

geodesic_feet(last_coords, current_coords) ==
    IF PointRejected(last_coords[1]) \/ PointRejected(current_coords[1])
    THEN Raise("ValueError")
    ELSE Return(<<FeetPerUnit *
                  ( Abs(PointLatitude(last_coords[1]) - PointLatitude(current_coords[1]))
                  + Abs(Degrees(last_coords[2]) - Degrees(current_coords[2])) )>>)

(***************************************************************************)
(* Serialisation: datetime.isoformat() and json.dump / json.dumps.         *)
(***************************************************************************)
\* "2024-01-01T00:00:SS" for the instant SS seconds after 2024-01-01T00:00:00
isoformat(t) == <<"2024-01-01T00:00:", t \div 10, t % 10>>

JsonString(s) == [type |-> "string", text |-> s, number |-> <<>>]

\* json writes None as null and a float as a number
JsonNumber(x) ==
    IF x = None THEN [type |-> "null", text |-> <<>>, number |-> <<>>]
    ELSE [type |-> "number", text |-> <<>>, number |-> x]

snapshot ==
    [last_update_time |-> JsonString(isoformat(last_update_time)),
     last_longitude |-> JsonNumber(last_longitude),
     last_latitude |-> JsonNumber(last_latitude),
     last_particulate_reading |-> JsonNumber(last_particulate_reading)]

payload == [state |-> [reported |-> snapshot]]

(***************************************************************************)
(* __init__                                                                *)
(***************************************************************************)
\* variant: the flag defaults to True
Init_remote_on ==
    /\ last_update_time \in Times
    /\ last_longitude = None
    /\ last_latitude = None
    /\ send_remote = TRUE
    /\ last_particulate_reading = None
    /\ file = <<>>
    /\ geopy_major \in {1, 2}
    /\ ret = Call("__init__", <<>>, "", Return(<<>>), 0, <<>>)

Init ==
    /\ last_update_time \in Times          \* datetime.now()
    /\ last_longitude = None
    /\ last_latitude = None
    /\ send_remote = FALSE
    /\ last_particulate_reading = None
    /\ file = <<>>
    /\ geopy_major \in {1, 2}
    /\ ret = Call("__init__", <<>>, "", Return(<<>>), 0, <<>>)

(***************************************************************************)
(* The property setters.                                                   *)
(***************************************************************************)
set_last_update_time ==
    \E value \in Times :
        /\ last_update_time' = value
        /\ ret' = Call("set_last_update_time", <<>>, "", Return(<<>>), 0, <<>>)
        /\ UNCHANGED <<last_longitude, last_latitude, send_remote,
                       last_particulate_reading, file, geopy_major>>

set_last_longitude ==
    \E value \in Longitudes :
        /\ last_longitude' = Some(value)
        /\ ret' = Call("set_last_longitude", <<>>, "", Return(<<>>), 0, <<>>)
        /\ UNCHANGED <<last_update_time, last_latitude, send_remote,
                       last_particulate_reading, file, geopy_major>>

set_last_latitude ==
    \E value \in Latitudes :
        /\ last_latitude' = Some(value)
        /\ ret' = Call("set_last_latitude", <<>>, "", Return(<<>>), 0, <<>>)
        /\ UNCHANGED <<last_update_time, last_longitude, send_remote,
                       last_particulate_reading, file, geopy_major>>

set_send_remote ==
    \E value \in BOOLEAN :
        /\ send_remote' = value
        /\ ret' = Call("set_send_remote", <<>>, "", Return(<<>>), 0, <<>>)
        /\ UNCHANGED <<last_update_time, last_longitude, last_latitude,
                       last_particulate_reading, file, geopy_major>>

set_last_particulate_reading ==
    \E value \in Readings :
        /\ last_particulate_reading' = Some(value)
        /\ ret' = Call("set_last_particulate_reading", <<>>, "", Return(<<>>), 0, <<>>)
        /\ UNCHANGED <<last_update_time, last_longitude, last_latitude,
                       send_remote, file, geopy_major>>

(***************************************************************************)
(* calculate_distance_moved(current_latitude, current_longitude)           *)
(***************************************************************************)
\* variant: "and" for "or" in the guard
distance_moved_and(current_latitude, current_longitude) ==
    IF last_latitude = None /\ last_longitude = None
    THEN Return(<<0>>)
    ELSE geodesic_feet(<<last_latitude, last_longitude>>,
                       <<Some(current_latitude), Some(current_longitude)>>)

\* variant: last_coords built as (longitude, latitude)
distance_moved_swapped(current_latitude, current_longitude) ==
    IF last_latitude = None \/ last_longitude = None
    THEN Return(<<0>>)
    ELSE geodesic_feet(<<last_longitude, last_latitude>>,
                       <<Some(current_latitude), Some(current_longitude)>>)

distance_moved(current_latitude, current_longitude) ==
    IF last_latitude = None \/ last_longitude = None
    THEN Return(<<0>>)
    ELSE geodesic_feet(<<last_latitude, last_longitude>>,
                       <<Some(current_latitude), Some(current_longitude)>>)

\* variant: the method also stores the queried pair as the last position
calculate_distance_moved_storing ==
    \E current_latitude \in Latitudes, current_longitude \in Longitudes :
        /\ ret' = Call("calculate_distance_moved",
                       <<current_latitude, current_longitude>>, "",
                       distance_moved(current_latitude, current_longitude),
                       0, <<>>)
        /\ last_latitude' = Some(current_latitude)
        /\ last_longitude' = Some(current_longitude)
        /\ UNCHANGED <<last_update_time, send_remote,
                       last_particulate_reading, file, geopy_major>>

calculate_distance_moved ==
    \E current_latitude \in Latitudes, current_longitude \in Longitudes :
        /\ ret' = Call("calculate_distance_moved",
                       <<current_latitude, current_longitude>>, "",
                       distance_moved(current_latitude, current_longitude),
                       0, <<>>)
        /\ UNCHANGED <<last_update_time, last_longitude, last_latitude,
                       send_remote, last_particulate_reading, file, geopy_major>>

(***************************************************************************)
(* read_gps_coordinates() and read_environmental_data()                    *)
(***************************************************************************)
\* variant: a position already stored is kept
read_gps_coordinates_keep ==
    /\ last_latitude' = IF last_latitude = None THEN Some(StubLatitude)
                        ELSE last_latitude
    /\ last_longitude' = IF last_longitude = None THEN Some(StubLongitude)
                         ELSE last_longitude
    /\ ret' = Call("read_gps_coordinates", <<>>, "",
                   Return(<<StubLatitude, StubLongitude>>), 0, <<>>)
    /\ UNCHANGED <<last_update_time, send_remote, last_particulate_reading,
                   file, geopy_major>>

\* variant: the read also stamps last_update_time with datetime.now()
read_gps_coordinates_refreshing ==
    /\ last_latitude' = Some(StubLatitude)
    /\ last_longitude' = Some(StubLongitude)
    /\ last_update_time' \in Times
    /\ ret' = Call("read_gps_coordinates", <<>>, "",
                   Return(<<StubLatitude, StubLongitude>>), 0, <<>>)
    /\ UNCHANGED <<send_remote, last_particulate_reading, file, geopy_major>>

read_gps_coordinates ==
    /\ last_latitude' = Some(StubLatitude)
    /\ last_longitude' = Some(StubLongitude)
    /\ ret' = Call("read_gps_coordinates", <<>>, "",
                   Return(<<StubLatitude, StubLongitude>>), 0, <<>>)
    /\ UNCHANGED <<last_update_time, send_remote, last_particulate_reading,
                   file, geopy_major>>

read_environmental_data ==
    /\ last_particulate_reading' = Some(StubParticulate)
    /\ ret' = Call("read_environmental_data", <<>>, "",
                   Return(<<StubParticulate>>), 0, <<>>)
    /\ UNCHANGED <<last_update_time, last_longitude, last_latitude,
                   send_remote, file, geopy_major>>

(***************************************************************************)
(* save_data_to_json(file_path): open(file_path, 'w') truncates the file,  *)
(* or raises OSError and leaves it as it was.                              *)
(***************************************************************************)
\* variant: the file is opened with 'a'
write_file_append(content, data) == Append(content, data)

write_file(content, data) == <<data>>

save_data_to_json ==
    \E opened \in BOOLEAN :
        /\ file' = IF opened THEN write_file(file, snapshot) ELSE file
        /\ ret' = Call("save_data_to_json", <<>>, "",
                       IF opened THEN Return(<<>>) ELSE Raise("OSError"),
                       0, <<>>)
        /\ UNCHANGED <<last_update_time, last_longitude, last_latitude,
                       send_remote, last_particulate_reading, geopy_major>>

(***************************************************************************)
(* send_data_to_aws_iot(aws_iot_topic): client.publish either succeeds or  *)
(* raises; the method catches nothing.                                     *)
(***************************************************************************)
\* variant: the early return is missing
publish_calls_unguarded(aws_iot_topic, delivered) ==
    <<[topic |-> aws_iot_topic, qos |-> 1, payload |-> payload,
       acked |-> delivered]>>

\* variant: published at qos 0
publish_calls_qos0(aws_iot_topic, delivered) ==
    IF ~send_remote THEN <<>>
    ELSE <<[topic |-> aws_iot_topic, qos |-> 0, payload |-> payload,
            acked |-> delivered]>>

\* the calls of client.publish one invocation makes; acked tells whether the
\* broker acknowledged the call or the call raised
publish_calls(aws_iot_topic, delivered) ==
    IF ~send_remote THEN <<>>
    ELSE <<[topic |-> aws_iot_topic, qos |-> 1, payload |-> payload,
            acked |-> delivered]>>

\* boto3.client('iot-data', ...) comes after the early return
clients_created == IF ~send_remote THEN 0 ELSE 1

\* variant: the publish error is caught and dropped
send_outcome_swallowed(delivered) == Return(<<>>)

send_outcome(delivered) ==
    IF ~send_remote \/ delivered THEN Return(<<>>) ELSE Raise("ClientError")

send_data_to_aws_iot ==
    \E aws_iot_topic \in Topics, delivered \in BOOLEAN :
        /\ ret' = Call("send_data_to_aws_iot", <<>>, aws_iot_topic,
                       send_outcome(delivered), clients_created,
                       publish_calls(aws_iot_topic, delivered))
        /\ UNCHANGED <<last_update_time, last_longitude, last_latitude,
                       send_remote, last_particulate_reading, file, geopy_major>>

Next ==
    \/ set_last_update_time
    \/ set_last_longitude
    \/ set_last_latitude
    \/ set_send_remote
    \/ set_last_particulate_reading
    \/ calculate_distance_moved
    \/ read_gps_coordinates
    \/ read_environmental_data
    \/ save_data_to_json
    \/ send_data_to_aws_iot

Spec == Init /\ [][Next]_vars

(***************************************************************************)
(* Properties.  A step is a call; ret' names the call, the unprimed fields *)
(* are the state the call found.                                           *)
(***************************************************************************)
\* the JSON value j stands for the optional float x: null for None, never a
\* number in its place
Carries(j, x) ==
    IF x = None THEN j.type = "null" /\ j.number = <<>>
    ELSE j.type = "number" /\ j.number = x

\* doc has exactly the four keys, with the given values
FourFields(doc, t, lon, lat, pm) ==
    /\ DOMAIN doc = {"last_update_time", "last_longitude", "last_latitude",
                     "last_particulate_reading"}
    /\ doc.last_update_time.type = "string"
    /\ doc.last_update_time.text = isoformat(t)
    /\ Carries(doc.last_longitude, lon)
    /\ Carries(doc.last_latitude, lat)
    /\ Carries(doc.last_particulate_reading, pm)

\* C1: send_data_to_aws_iot called while send_remote is false creates no
\* client, issues no publish and returns normally, whatever the topic and
\* the other four fields.
C1_NoNetworkWhenDisabled ==
    [][(ret'.op = "send_data_to_aws_iot" /\ ~send_remote)
       => /\ ret'.clients = 0
          /\ ret'.publishes = <<>>
          /\ ret'.kind = "return"]_vars

C1_Witness ==
    /\ ret.op = "send_data_to_aws_iot"
    /\ ~send_remote
    /\ ret.publishes = <<>>
    /\ last_latitude # None
    /\ last_particulate_reading # None

\* C2: send_data_to_aws_iot called while send_remote is true issues exactly
\* one publish, to the caller's topic, at qos 1, whose payload is
\* {"state": {"reported": {...}}} with exactly the four fields as they are at
\* call time (the timestamp as its ISO string, unset fields as null).
C2_OnePublishWhenEnabled ==
    [][(ret'.op = "send_data_to_aws_iot" /\ send_remote)
       => /\ Len(ret'.publishes) = 1
          /\ ret'.publishes[1].topic = ret'.topic
          /\ ret'.publishes[1].qos = 1
          /\ DOMAIN ret'.publishes[1].payload = {"state"}
          /\ DOMAIN ret'.publishes[1].payload.state = {"reported"}
          /\ FourFields(ret'.publishes[1].payload.state.reported,
                        last_update_time, last_longitude, last_latitude,
                        last_particulate_reading)]_vars

C2_Witness ==
    /\ ret.op = "send_data_to_aws_iot"
    /\ send_remote
    /\ Len(ret.publishes) = 1
    /\ ret.publishes[1].acked
    /\ ret.publishes[1].payload.state.reported.last_latitude.type = "null"
    /\ ret.publishes[1].payload.state.reported.last_longitude.type = "number"

\* C3: calculate_distance_moved returns exactly 0.0, without raising, for
\* every queried pair whenever last_latitude or last_longitude is unset.
C3_ZeroWhenNoPriorPosition ==
    [][(ret'.op = "calculate_distance_moved"
        /\ (last_latitude = None \/ last_longitude = None))
       => /\ ret'.kind = "return"
          /\ ret'.value = <<0>>]_vars

\* only the latitude has been assigned, and the query is one geodesic()
\* would reject
C3_Witness ==
    /\ ret.op = "calculate_distance_moved"
    /\ last_latitude # None
    /\ last_longitude = None
    /\ ret.args[1] > LatitudeLimit
    /\ geopy_major = 2
    /\ ret.value = <<0>>

\* C4: calculate_distance_moved changes no field, with the position set or
\* unset, so the same call made twice in a row gives the same result.
C4_DistanceIsPure ==
    [][ret'.op = "calculate_distance_moved"
       => /\ UNCHANGED <<fields, file>>
          /\ (ret.op = "calculate_distance_moved" /\ ret'.args = ret.args
              => ret' = ret)]_vars

C4_Witness ==
    /\ ret.op = "calculate_distance_moved"
    /\ last_latitude # None
    /\ last_longitude # None
    /\ ret.kind = "return"
    /\ ret.value # <<0>>

\* C5: read_gps_coordinates returns (34.0522, -118.2437) and leaves
\* last_latitude = 34.0522 and last_longitude = -118.2437 whatever was stored
\* before, changing no other field.
C5_StubPositionStored ==
    [][ret'.op = "read_gps_coordinates"
       => /\ ret'.kind = "return"
          /\ ret'.value = <<340522, -1182437>>
          /\ last_latitude' = <<340522>>
          /\ last_longitude' = <<-1182437>>
          /\ UNCHANGED <<last_update_time, send_remote,
                         last_particulate_reading, file>>]_vars

C5_Witness ==
    /\ ret.op = "read_gps_coordinates"
    /\ last_latitude = Some(StubLatitude)
    /\ last_longitude = Some(StubLongitude)
    /\ send_remote
    /\ last_particulate_reading = <<-10>>

\* C6: save_data_to_json, when it returns, leaves the file holding one
\* document with exactly the four keys, each the field's value at call time
\* (unset fields as null); what the file held before is gone and send_remote
\* is no key of it.
C6_SnapshotWritten ==
    [][(ret'.op = "save_data_to_json" /\ ret'.kind = "return")
       => /\ Len(file') = 1
          /\ FourFields(file'[1], last_update_time, last_longitude,
                        last_latitude, last_particulate_reading)
          /\ UNCHANGED fields]_vars

C6_Witness ==
    /\ ret.op = "save_data_to_json"
    /\ ret.kind = "return"
    /\ Len(file) = 1
    /\ file[1].last_latitude.type = "null"
    /\ file[1].last_particulate_reading.type = "number"
    /\ send_remote

\* C7: when client.publish fails with send_remote true, the error reaches
\* the caller, that invocation makes no second publish, and the five fields
\* and everything else the object holds are as before.
C7_PublishFailurePropagates ==
    [][(ret'.op = "send_data_to_aws_iot" /\ send_remote
        /\ \E i \in DOMAIN ret'.publishes : ~ret'.publishes[i].acked)
       => /\ ret'.kind = "raise"
          /\ ret'.exc = "ClientError"
          /\ Len(ret'.publishes) = 1
          /\ UNCHANGED <<fields, file>>]_vars

C7_Witness ==
    /\ ret.op = "send_data_to_aws_iot"
    /\ send_remote
    /\ ret.kind = "raise"
    /\ Len(ret.publishes) = 1
    /\ ~ret.publishes[1].acked

\* C8: only its own setter changes last_update_time; a snapshot exported
\* after the position and the reading were acquired carries the timestamp
\* as it stood.
C8_TimestampOnlyBySetter ==
    [][last_update_time' # last_update_time
       => ret'.op = "set_last_update_time"]_vars

C8_Witness ==
    /\ ret.op = "save_data_to_json"
    /\ ret.kind = "return"
    /\ Len(file) = 1
    /\ file[1].last_update_time.text = isoformat(last_update_time)
    /\ file[1].last_latitude.number = Some(StubLatitude)
    /\ file[1].last_particulate_reading.number = Some(StubParticulate)

C10_PublishGatedByFlag ==
    /\ ~send_remote
    /\ [][/\ (send_remote' # send_remote => ret'.op = "set_send_remote")
          /\ (ret'.publishes # <<>> => send_remote)]_vars

\* a publish has gone out: the setter was given True before
C10_Witness ==
    /\ ret.op = "send_data_to_aws_iot"
    /\ ret.topic = "device/b"
    /\ ret.clients = 1
    /\ Len(ret.publishes) = 1
    /\ send_remote

====
